---- MODULE Spec2Model ----
(***************************************************************************)
(* Model of the conversational agent of mcp-anthropic.                     *)
(*                                                                         *)
(* Two agents exist in the repository and a process runs exactly one:      *)
(*   variant = "core" : core/cli_chat.py CliChat, which inherits           *)
(*                      core/chat.py Chat.run and uses core/gemini.py      *)
(*                      Gemini and core/tools.py ToolManager;              *)
(*   variant = "app"  : app.py CliChat with app.py GeminiService.          *)
(*                                                                         *)
(* Python strings are sequences of tokens (a token is one character or     *)
(* one literal fragment of a format string), so that concatenation, join,  *)
(* split and strip are computed and not assumed.                           *)
(***************************************************************************)
EXTENDS Integers, Sequences, FiniteSets, TLC

(* ------------------------------ bounds -------------------------------- *)
\* turns (calls of run) one process performs
MaxTurns == 2
\* model calls one process performs over all its turns
MaxModelCalls == 3

(* ------------------------- Python string helpers ---------------------- *)
NL == "\n"
SP == " "

IsSpace(c) == c \in {SP, NL}

RECURSIVE Concat(_)
\* "".join(seq) for a sequence of strings
Concat(ss) == IF ss = <<>> THEN <<>> ELSE Head(ss) \o Concat(Tail(ss))

RECURSIVE Join(_, _)
\* sep.join(seq)
Join(sep, ss) ==
    IF ss = <<>> THEN <<>>
    ELSE IF Len(ss) = 1 THEN Head(ss)
    ELSE Head(ss) \o sep \o Join(sep, Tail(ss))

RECURSIVE LStrip(_)
LStrip(s) == IF s # <<>> /\ IsSpace(Head(s)) THEN LStrip(Tail(s)) ELSE s

RECURSIVE RStrip(_)
RStrip(s) ==
    IF s # <<>> /\ IsSpace(s[Len(s)]) THEN RStrip(SubSeq(s, 1, Len(s) - 1)) ELSE s

\* str.strip()
Strip(s) == RStrip(LStrip(s))

RECURSIVE SplitFrom(_, _)
\* str.split(): s is the rest of the string, cur the word being read
SplitFrom(s, cur) ==
    IF s = <<>> THEN (IF cur = <<>> THEN <<>> ELSE <<cur>>)
    ELSE IF IsSpace(Head(s))
         THEN (IF cur = <<>> THEN <<>> ELSE <<cur>>) \o SplitFrom(Tail(s), <<>>)
         ELSE SplitFrom(Tail(s), Append(cur, Head(s)))

Split(s) == SplitFrom(s, <<>>)

\* str.startswith(c) for a one-character c
StartsWith(s, c) == s # <<>> /\ Head(s) = c

\* c in s for a one-character c
HasChar(s, c) == \E i \in 1..Len(s) : s[i] = c

\* sub in s
Contains(s, sub) ==
    \E i \in 0..(Len(s) - Len(sub)) : SubSeq(s, i + 1, i + Len(sub)) = sub

\* str.replace(c, "") for a one-character c
RemoveChar(s, c) == SelectSeq(s, LAMBDA x : x # c)

RECURSIVE MapSeq(_, _)
\* [F(x) for x in s]
MapSeq(F(_), s) == IF s = <<>> THEN <<>> ELSE <<F(Head(s))>> \o MapSeq(F, Tail(s))

InSeq(x, s) == \E i \in 1..Len(s) : s[i] = x

(* ------------------------------ parts --------------------------------- *)
\* One element of a message's "parts".  kind:
\*   "pystr"            a plain Python str put in a parts list
\*   "text"             a response Part holding text
\*   "call"             a response Part holding a function_call
\*   "functionResponse" the dict built by _build_tool_result_part
\*   "textdict"         the dict {"text": ...}
MkPart(k, t, n, c, e) ==
    [kind |-> k, text |-> t, name |-> n, content |-> c, is_error |-> e]

PyStr(s) == MkPart("pystr", s, "", <<>>, FALSE)
TextPart(s) == MkPart("text", s, "", <<>>, FALSE)
CallPart(n) == MkPart("call", <<>>, n, <<>>, FALSE)
TextDict(s) == MkPart("textdict", s, "", <<>>, FALSE)

\* The value stored under a message's "parts" key: None, a str or a list.
PNone == [t |-> "None", s |-> <<>>, items |-> <<>>]
PStrVal(x) == [t |-> "str", s |-> x, items |-> <<>>]
PList(xs) == [t |-> "list", s |-> <<>>, items |-> xs]

Msg(r, p) == [role |-> r, parts |-> p]

(* --------------------- the provider sessions (environment) ------------ *)
\* clients.values() in registration order; each entry is the tool list the
\* provider's list_tools returns ("t2" is listed by both providers)
ClientTools == << <<"t1", "t2">>, <<"t2", "t3">> >>

NumClients == Len(ClientTools)

\* the document-id catalog served under docs://documents
Catalog == << <<"p">>, <<"q">> >>

\* the text served under docs://documents/<doc_id>
DocText(doc_id) == <<"text of ">> \o doc_id

\* the prompt templates the provider knows
KnownPrompts == { <<"s">> }

\* a PromptMessage: role and content; content is one TextContent
\* (ckind "text"), a list of content items (ckind "list", items as
\* [type, text]) or any other content object (ckind "other")
PromptMessage(r, ck, t, its) == [role |-> r, ckind |-> ck, text |-> t, items |-> its]

\* the block lists get_prompt can return for a known template
PromptResults(doc_id) ==
    { << PromptMessage("user", "text", <<"summarize ">> \o doc_id, <<>>),
         PromptMessage("assistant", "list", <<>>,
                       << [type |-> "text", text |-> <<"x">>],
                          [type |-> "image", text |-> <<>>],
                          [type |-> "text", text |-> <<"y">>] >>),
         PromptMessage("user", "other", <<>>, <<>>),
         PromptMessage("system", "list", <<>>, << [type |-> "image", text |-> <<>>] >>) >> }

\* what one call_tool can do: raise, return None, or return a CallToolResult
\* whose content items are TextContent (isText) or another content class
CallRaise(m) == [kind |-> "raise", msg |-> m, content |-> <<>>, isError |-> FALSE]
CallNone == [kind |-> "none", msg |-> <<>>, content |-> <<>>, isError |-> FALSE]
CallResult(c, e) == [kind |-> "result", msg |-> <<>>, content |-> c, isError |-> e]

\* no call_tool at all: no client lists the tool
CallNotFound == [kind |-> "notfound", msg |-> <<>>, content |-> <<>>, isError |-> FALSE]

\* the message of the exception a failing call_tool raises
RaiseMsg == <<"boom">>

CallOutcomes ==
    { CallRaise(RaiseMsg),
      CallNone,
      CallResult(<< [isText |-> TRUE, text |-> <<"r">>] >>, FALSE),
      CallResult(<< [isText |-> TRUE, text |-> <<"e">>],
                    [isText |-> FALSE, text |-> <<>>] >>, TRUE) }

(* --------------------- the model endpoint (environment) --------------- *)
A == <<"a">>
B == <<"b">>

\* response.parts of the responses the endpoint can give
Responses ==
    { << TextPart(A), TextPart(<<>>), TextPart(B) >>,
      << TextPart(<<SP>>) >>,
      << TextPart(A), CallPart("nf"), CallPart("t1"), CallPart("t2") >> }

(* ------------------------------ queries ------------------------------- *)
Queries ==
    { <<"h", "i">>,
      <<"a", "@", "p">>,
      <<"@", "q", SP, "@", "z", SP, "@", "p">>,
      <<"/", "s", SP, "p">>,
      <<"/", "s">>,
      <<"/", "u", SP, "p">> }

(* ------------------------- core/tools.py ------------------------------ *)
\* ToolManager.get_all_tools: the tools of every client, concatenated
get_all_tools == Concat(ClientTools)

RECURSIVE FindFrom(_, _, _)
\* the for loop of _find_client_with_tool from client k on; failAt is the
\* client whose list_tools raises (0: none).  Result: the client's index,
\* 0 for None, -1 when list_tools raised.
FindFrom(k, tool_name, failAt) ==
    IF k > NumClients THEN 0
    ELSE IF k = failAt THEN -1
    ELSE IF InSeq(tool_name, ClientTools[k]) THEN k
    ELSE FindFrom(k + 1, tool_name, failAt)

RECURSIVE FindFromLast(_, _, _)
\* the same loop run over the clients from the last registered to the first
FindFromLast(k, tool_name, failAt) ==
    IF k < 1 THEN 0
    ELSE IF k = failAt THEN -1
    ELSE IF InSeq(tool_name, ClientTools[k]) THEN k
    ELSE FindFromLast(k - 1, tool_name, failAt)

\* a resolution in which the latest registered client that lists the tool wins
find_client_with_tool_last(tool_name, failAt) == FindFromLast(NumClients, tool_name, failAt)

\* ToolManager._find_client_with_tool
find_client_with_tool(tool_name, failAt) == FindFrom(1, tool_name, failAt)

\* ToolManager._build_tool_result_part
build_tool_result_part(tool_name, text, status) ==
    MkPart("functionResponse", <<>>, tool_name, text, status = "error")

\* json.dumps of a list of strings
JsonDumpsList(xs) ==
    <<"[">> \o Join(<<", ">>, MapSeq(LAMBDA x : <<"\"">> \o x \o <<"\"">>, xs)) \o <<"]">>

\* json.dumps({"error": m})
JsonDumpsError(m) == <<"{\"error\": \"">> \o m \o <<"\"}">>

\* f"Error executing tool '{tool_name}': {e}"
ErrorMessage(tool_name, e) ==
    <<"Error executing tool '", tool_name, "': ">> \o e

\* the tool_requests comprehension of execute_tool_requests
ToolRequests(parts) == SelectSeq(parts, LAMBDA p : p.kind = "call")

\* the value execute_tool_requests hands back once its loop has run over
\* tool_result_blocks: the function body ends with the loop and has no
\* return statement, so the caller receives None
execute_tool_requests_result(tool_result_blocks) == PNone

\* the local tool_output of execute_tool_requests: unbound until the first
\* call_tool returns, then the last value call_tool returned
Unbound == [bound |-> FALSE, none |-> TRUE, content |-> <<>>, isError |-> FALSE]
Bound(o) ==
    [bound |-> TRUE, none |-> (o.kind = "none"), content |-> o.content, isError |-> o.isError]

\* a status that ignores the provider's flag
StatusOf_Success(out) == "success"

\* "error" if tool_output and tool_output.isError else "success"
StatusOf(out) == IF ~out.none /\ out.isError THEN "error" ELSE "success"

\* [item.text for item in items if isinstance(item, TextContent)]
ContentList(items) ==
    MapSeq(LAMBDA it : it.text, SelectSeq(items, LAMBDA it : it.isText))

(* ------------------------- core/gemini.py ----------------------------- *)
\* isinstance(part, str)
IsInstanceStr(p) == p.kind = "pystr"

\* part.function_call is set
HasFunctionCall(p) == p.kind = "call"

\* Gemini.text_from_message: the filter keeps a part only when
\* isinstance(part, str) and not part.function_call
Gemini_text_from_message(parts) ==
    Join(<<NL>>,
         MapSeq(LAMBDA p : p.text,
                SelectSeq(parts, LAMBDA p : IsInstanceStr(p) /\ ~HasFunctionCall(p))))

(* ------------------------- app.py GeminiService ----------------------- *)
\* GeminiService.text_from_message: hasattr(part, 'text') and part.text
GeminiService_text_from_message(parts) ==
    Join(<<NL>>,
         MapSeq(LAMBDA p : p.text,
                SelectSeq(parts, LAMBDA p : p.text # <<>>)))

(* ------------------------- core/cli_chat.py --------------------------- *)
\* convert_prompt_message_to_message_param
convert_prompt_message_to_message_param(pm) ==
    LET role == IF pm.role = "user" THEN "user" ELSE "model"
        text_blocks ==
            MapSeq(LAMBDA it : TextDict(it.text),
                   SelectSeq(pm.items, LAMBDA it : it.type = "text"))
    IN  IF pm.ckind = "text" THEN Msg(role, PStrVal(pm.text))
        ELSE IF pm.ckind = "list" /\ text_blocks # <<>> THEN Msg(role, PList(text_blocks))
        ELSE Msg(role, PStrVal(<<>>))

RECURSIVE Reverse(_)
Reverse(xs) == IF xs = <<>> THEN <<>> ELSE Append(Reverse(Tail(xs)), Head(xs))

\* the converted messages in the opposite order (a deliberately wrong conversion)
convert_prompt_messages_reversed(pms) ==
    Reverse(MapSeq(convert_prompt_message_to_message_param, pms))

\* convert_prompt_messages_to_message_params
convert_prompt_messages_to_message_params(pms) ==
    MapSeq(convert_prompt_message_to_message_param, pms)

\* mentions = [word[1:] for word in query.split() if word.startswith("@")]
Mentions(query) ==
    MapSeq(LAMBDA w : Tail(w), SelectSeq(Split(query), LAMBDA w : StartsWith(w, "@")))

\* f'\n<document id="{doc_id}">\n{content}\n</document>\n'
DocBlock(doc_id, content) ==
    <<NL, "<document id=\"">> \o doc_id \o <<"\">", NL>> \o content \o <<NL, "</document>", NL>>

\* the doc ids core CliChat._extract_resources reads: catalog order
CoreMentioned(query) == SelectSeq(Catalog, LAMBDA d : InSeq(d, Mentions(query)))

\* the return value of core CliChat._extract_resources
CoreExtracted(query) ==
    Concat(MapSeq(LAMBDA d : DocBlock(d, DocText(d)), CoreMentioned(query)))

\* the f-string prompt of core CliChat._process_query
Indent == <<SP, SP, SP, SP, SP, SP, SP, SP>>
CorePrompt(query, added_resources) ==
    <<NL>> \o Indent \o query \o <<NL, NL>> \o Indent \o added_resources \o <<NL>> \o Indent

(* ------------------------- app.py CliChat ----------------------------- *)
\* every mention taken for a document, in the catalog or not
AppMentioned_All(query) == Mentions(query)

\* the doc ids app CliChat._extract_resources reads: mention order
AppMentioned(query) == SelectSeq(Mentions(query), LAMBDA m : InSeq(m, Catalog))

\* the return value of app CliChat._extract_resources when nothing raises
AppExtracted(query) ==
    MapSeq(LAMBDA d : TextDict(DocBlock(d, DocText(d))), AppMentioned(query))

(* ------------------------- core/chat.py ------------------------------- *)
\* a run that asks for the catalog whatever the query is
UseTools_Always(q) == TRUE

\* use_tools = query.startswith("/") or "@" in query
UseTools(q) == StartsWith(q, "/") \/ HasChar(q, "@")

\* a loop that never sees a function call
ToolUseOccurred_Never(parts) == FALSE

\* tool_use_occurred: some part of the response holds a function_call
ToolUseOccurred(parts) == \E k \in 1..Len(parts) : HasFunctionCall(parts[k])

CoreSentinel == <<"The model did not provide a text response.">>

\* the else branch of Chat.run: the value run returns for the final text
ChatFinal(final_text_response) ==
    IF final_text_response = <<>> THEN CoreSentinel ELSE final_text_response

\* Gemini.chat: the tool_config that goes into the request, set only
\* "if tool_config" (neither None nor an empty list); tc is [none, tools]
Gemini_chat_params_tool_config(tc) ==
    IF tc.none \/ tc.tools = <<>> THEN [none |-> TRUE, tools |-> <<>>] ELSE tc

\* the system argument of Gemini.chat: Chat.run passes none
NoSystem == [none |-> TRUE, text |-> <<>>]

\* a Gemini.chat that always puts a system message first (what the code does
\* only for a caller that passes system)
Gemini_chat_contents_system(msgs, system) ==
    <<Msg("user", PList(<<PyStr(<<"sys">>)>>))>> \o msgs

\* Gemini.chat: params["contents"] is the caller's list itself, and a system
\* text is inserted at its head; the list as the call leaves it
Gemini_chat_contents(msgs, system) ==
    IF system.none THEN msgs
    ELSE <<Msg("user", PList(<<PyStr(system.text)>>))>> \o msgs

\* Gemini.add_user_message: message is no GenerateContentResponse here
Gemini_add_user_message(msgs, message) == Append(msgs, Msg("user", message))

\* Gemini.add_assistant_message
Gemini_add_assistant_message(msgs, parts) == Append(msgs, Msg("model", PList(parts)))

(* ------------------------- app.py CliChat.run ------------------------- *)
AppSentinel == <<"The model did not return usable text.">>

\* the final answer without the test of text.strip() (a deliberately wrong variant)
AppFinal_NoStrip(text) == IF text # <<>> THEN text ELSE AppSentinel

\* the tail of app CliChat.run: text if text and text.strip(), else the sentinel
AppFinal(text) ==
    IF text # <<>> /\ Strip(text) # <<>> THEN text ELSE AppSentinel

(* ------------------------------ state --------------------------------- *)
VARIABLES
    variant,            \* which agent this process runs: "core" or "app"
    pc,                 \* "idle", "model_call", "dispatch", "done"
    messages,           \* self.messages, the Conversation
    query,              \* the query of the current turn
    use_tools,          \* Chat.run's use_tools
    tool_config,        \* Chat.run's tool_config of the last model call
    prompt_messages,    \* _process_command: what get_prompt returned
    response,           \* the parts of the last response
    tool_requests,      \* execute_tool_requests: the requests of the batch
    idx,                \* execute_tool_requests: requests the loop is through
    tool_result_blocks, \* execute_tool_requests: tool_result_blocks
    tool_output,        \* execute_tool_requests: tool_output
    call_raised,        \* positions of the batch whose call_tool raised
    call_outputs,       \* what the provider did for each request the loop is through
    tool_result_parts,  \* Chat.run's tool_result_parts
    outcome,            \* how the current turn ended: "none", "returned", "raised"
    exc,                \* the exception a raised turn ended with
    answer,             \* the string run returned
    turns,              \* turns started
    modelCalls,         \* model calls made by the process
    turnCalls,          \* model calls made in the current turn
    received,           \* the responses the endpoint gave in the current turn
    turnStart,          \* len(self.messages) when the current turn began
    read_failed,        \* a read_resource of the current turn raised
    providerOps,        \* provider operations performed in the current turn
    stage,              \* where main is: "main", "initialize", "run", or how it left
                        \* its async with block: "connect_failed",
                        \* "initialize_left", "run_left"
    opened,             \* the contexts MCPClient._exit_stack holds open
    completer,          \* UnifiedCompleter: resources and prompts
    console,            \* what initialize or the current pass of CliApp.run printed:
                        \* "none", "init_error", "response", "error", "goodbye"
    app_exc             \* the exception that reached the try statement of
                        \* initialize or of the current pass of CliApp.run

vars ==
    << variant, pc, messages, query, use_tools, tool_config, prompt_messages,
       response, tool_requests, idx, tool_result_blocks, tool_output, call_raised,
       call_outputs,
       tool_result_parts, outcome, exc, answer, turns, modelCalls, turnCalls,
       received, turnStart, read_failed, providerOps,
       stage, opened, completer, console, app_exc >>

\* the state of main, MCPClient and CliApp in app.py
appVars == << stage, opened, completer, console, app_exc >>

dispatchVars ==
    << tool_requests, idx, tool_result_blocks, tool_output, call_raised, call_outputs >>

NoExc == [type |-> "", where |-> ""]
Exc(t, w) == [type |-> t, where |-> w]

PUnbound == [t |-> "unbound", s |-> <<>>, items |-> <<>>]

\* UnifiedCompleter.__init__: nothing to complete
NoCompletions == [resources |-> <<>>, prompts |-> <<>>]

\* tool_config: None or the aggregated list
NoToolConfig == [none |-> TRUE, tools |-> <<>>]

\* prompt_messages before get_prompt has returned
NoPrompt == [bound |-> FALSE, blocks |-> <<>>]

Init ==
    /\ variant \in {"core", "app"}
    /\ pc = "idle"
    /\ messages = <<>>
    /\ query = <<>>
    /\ use_tools = FALSE
    /\ tool_config = NoToolConfig
    /\ prompt_messages = NoPrompt
    /\ response = <<>>
    /\ tool_requests = <<>>
    /\ idx = 0
    /\ tool_result_blocks = <<>>
    /\ tool_output = Unbound
    /\ call_raised = {}
    /\ call_outputs = <<>>
    /\ tool_result_parts = PUnbound
    /\ outcome = "none"
    /\ exc = NoExc
    /\ answer = <<>>
    /\ turns = 0
    /\ modelCalls = 0
    /\ turnCalls = 0
    /\ received = <<>>
    /\ turnStart = 0
    /\ read_failed = FALSE
    /\ providerOps = <<>>
    /\ stage = (IF variant = "app" THEN "main" ELSE "run")
    /\ opened = {}
    /\ completer = NoCompletions
    /\ console = "none"
    /\ app_exc = ""

\* a new call of run: the locals of the previous call are gone
BeginTurn(q) ==
    /\ pc \in {"idle", "done"}
    /\ turns < MaxTurns
    /\ turns' = turns + 1
    /\ query' = q
    /\ turnStart' = Len(messages)
    /\ turnCalls' = 0
    /\ received' = <<>>
    /\ answer' = <<>>
    /\ response' = <<>>
    /\ tool_config' = NoToolConfig
    /\ tool_result_parts' = PUnbound
    /\ tool_requests' = <<>>
    /\ idx' = 0
    /\ tool_result_blocks' = <<>>
    /\ tool_output' = Unbound
    /\ call_raised' = {}
    /\ call_outputs' = <<>>
    /\ UNCHANGED << variant, modelCalls >>

\* the turn ends with exception t raised in w
Raise(t, w) ==
    /\ pc' = "done"
    /\ outcome' = "raised"
    /\ exc' = Exc(t, w)

(* ----------------------- provider operation log ----------------------- *)
\* one provider operation: the operation, the client it went to, its argument
Op(o, c, a) == [op |-> o, client |-> c, arg |-> a]

\* doc_client is the first registered client
DocClient == 1

CatalogUri == <<"docs://documents">>
DocUri(doc_id) == <<"docs://documents/">> \o doc_id

\* list_tools on clients 1..n
ListToolsOps(n) == [k \in 1..n |-> Op("list_tools", k, <<>>)]

\* the clients _find_client_with_tool asks before it returns or raises
FindAsked(tool_name, failAt) ==
    LET c == find_client_with_tool(tool_name, failAt)
    IN  IF c = -1 THEN failAt ELSE IF c = 0 THEN NumClients ELSE c

\* the reads of _extract_resources: the catalog, then one per doc id, cut
\* after the read that raises (failAt, 0: none)
ReadOps(doc_ids, failAt) ==
    LET all == <<Op("read_resource", DocClient, CatalogUri)>>
               \o MapSeq(LAMBDA d : Op("read_resource", DocClient, DocUri(d)), doc_ids)
    IN  IF failAt = 0 THEN all ELSE SubSeq(all, 1, failAt)

\* what get_prompt can do for a command: raise (always, for a template the
\* provider does not know) or return the blocks of the rendered template
GetPromptOutcomes(command, doc_id) ==
    { [ok |-> FALSE, blocks |-> <<>>] }
    \cup (IF command \in KnownPrompts
          THEN { [ok |-> TRUE, blocks |-> b] : b \in PromptResults(doc_id) }
          ELSE {})

(* ------------------- core: Chat.run, up to the loop ------------------- *)
\* Chat.run for a query _process_command accepts (it starts with "/")
CoreRunCommand(q) ==
    /\ variant = "core"
    /\ StartsWith(q, "/")
    /\ BeginTurn(q)
    /\ UNCHANGED appVars
    /\ use_tools' = UseTools(q)
    /\ LET words == Split(q)
           command == RemoveChar(words[1], "/")
       IN  IF Len(words) < 2
           THEN /\ Raise("IndexError", "_process_command")
                /\ providerOps' = <<>>
                /\ read_failed' = FALSE
                /\ prompt_messages' = NoPrompt
                /\ UNCHANGED messages
           ELSE \E r \in GetPromptOutcomes(command, words[2]) :
                  /\ providerOps' = <<Op("get_prompt", DocClient, command)>>
                  /\ read_failed' = FALSE
                  /\ IF r.ok
                     THEN /\ prompt_messages' = [bound |-> TRUE, blocks |-> r.blocks]
                          /\ messages' = messages
                                \o convert_prompt_messages_to_message_params(r.blocks)
                          /\ pc' = "model_call"
                          /\ outcome' = "none"
                          /\ exc' = NoExc
                     ELSE /\ Raise("McpError", "get_prompt")
                          /\ prompt_messages' = NoPrompt
                          /\ UNCHANGED messages

\* Chat.run for any other query: _extract_resources, then the prompt
CoreRunPlain(q) ==
    /\ variant = "core"
    /\ ~StartsWith(q, "/")
    /\ BeginTurn(q)
    /\ UNCHANGED appVars
    /\ use_tools' = UseTools(q)
    /\ prompt_messages' = NoPrompt
    /\ \E failAt \in 0..(1 + Len(CoreMentioned(q))) :
         /\ providerOps' = ReadOps(CoreMentioned(q), failAt)
         /\ read_failed' = (failAt # 0)
         /\ IF failAt = 0
            THEN /\ messages' = Append(messages,
                        Msg("user", PList(<<PyStr(CorePrompt(q, CoreExtracted(q)))>>)))
                 /\ pc' = "model_call"
                 /\ outcome' = "none"
                 /\ exc' = NoExc
            ELSE /\ Raise("McpError", "read_resource")
                 /\ UNCHANGED messages

(* ------------------- core: one pass of the while loop ----------------- *)
\* what the endpoint can do on one call: raise or return a response
ChatOutcomes ==
    { [ok |-> FALSE, parts |-> <<>>] } \cup { [ok |-> TRUE, parts |-> r] : r \in Responses }

\* get_all_tools (when use_tools), chat, add_assistant_message and the branch
\* on tool_use_occurred, up to the first await of execute_tool_requests or
\* up to the return of run
CoreModelCall ==
    /\ variant = "core"
    /\ pc = "model_call"
    /\ modelCalls < MaxModelCalls
    /\ \E failAt \in (IF use_tools THEN 0..NumClients ELSE {0}), r \in ChatOutcomes :
         IF failAt # 0
         THEN /\ Raise("McpError", "get_all_tools")
              /\ providerOps' = providerOps \o ListToolsOps(failAt)
              /\ UNCHANGED << messages, tool_config, response, dispatchVars,
                              answer, modelCalls, turnCalls, received >>
         ELSE /\ providerOps' = providerOps
                    \o (IF use_tools THEN ListToolsOps(NumClients) ELSE <<>>)
              /\ tool_config' = IF use_tools
                                THEN [none |-> FALSE, tools |-> get_all_tools]
                                ELSE NoToolConfig
              /\ modelCalls' = modelCalls + 1
              /\ turnCalls' = turnCalls + 1
              /\ IF ~r.ok
                 THEN /\ Raise("APIError", "chat")
                      /\ messages' = Gemini_chat_contents(messages, NoSystem)
                      /\ UNCHANGED << response, dispatchVars, answer, received >>
                 ELSE /\ messages' = Gemini_add_assistant_message(
                                        Gemini_chat_contents(messages, NoSystem), r.parts)
                      /\ response' = r.parts
                      /\ received' = Append(received, r.parts)
                      /\ exc' = NoExc
                      /\ IF ToolUseOccurred(r.parts)
                         THEN /\ pc' = "dispatch"
                              /\ outcome' = "none"
                              /\ tool_requests' = ToolRequests(r.parts)
                              /\ idx' = 0
                              /\ tool_result_blocks' = <<>>
                              /\ tool_output' = Unbound
                              /\ call_raised' = {}
                              /\ call_outputs' = <<>>
                              /\ UNCHANGED answer
                         ELSE /\ pc' = "done"
                              /\ outcome' = "returned"
                              /\ answer' = ChatFinal(Gemini_text_from_message(r.parts))
                              /\ UNCHANGED dispatchVars
    /\ UNCHANGED << variant, query, use_tools, prompt_messages, tool_result_parts,
                    turns, turnStart, read_failed, appVars >>

\* the body of the try statement of execute_tool_requests for one request:
\* o is what call_tool does, out the tool_output left by earlier requests.
\* Result: whether an exception leaves the function (the except clause reads
\* tool_output, which is unbound until a call_tool has returned), the part
\* built, and tool_output afterwards.
TryCallTool(tool_name, o, out) ==
    IF o.kind # "raise"
    THEN LET items == IF o.kind = "none" THEN <<>> ELSE o.content
         IN  [escapes |-> FALSE,
              part |-> build_tool_result_part(tool_name,
                           JsonDumpsList(ContentList(items)), StatusOf(Bound(o))),
              out |-> Bound(o)]
    ELSE IF ~out.bound
         THEN [escapes |-> TRUE,
               part |-> build_tool_result_part(tool_name, <<>>, "error"),
               out |-> out]
         ELSE [escapes |-> FALSE,
               part |-> build_tool_result_part(tool_name,
                            JsonDumpsError(ErrorMessage(tool_name, o.msg)), StatusOf(out)),
               out |-> out]

NotFoundText == <<"Could not find that tool">>

\* the part for a request no client lists
NotFoundPart(tool_name) == build_tool_result_part(tool_name, NotFoundText, "error")

\* one iteration of the for loop of execute_tool_requests
ExecuteToolRequest ==
    /\ variant = "core"
    /\ pc = "dispatch"
    /\ idx < Len(tool_requests)
    /\ LET tool_name == tool_requests[idx + 1].name
       IN  \E failAt \in 0..NumClients :
             LET client == find_client_with_tool(tool_name, failAt)
                 asked == ListToolsOps(FindAsked(tool_name, failAt))
             IN  IF client = -1
                 THEN /\ Raise("McpError", "_find_client_with_tool")
                      /\ providerOps' = providerOps \o asked
                      /\ UNCHANGED << idx, tool_result_blocks, tool_output, call_raised,
                                      call_outputs >>
                 ELSE IF client = 0
                 THEN /\ tool_result_blocks' = Append(tool_result_blocks, NotFoundPart(tool_name))
                      /\ call_outputs' = Append(call_outputs, CallNotFound)
                      /\ idx' = idx + 1
                      /\ providerOps' = providerOps \o asked
                      /\ UNCHANGED << pc, outcome, exc, tool_output, call_raised >>
                 ELSE \E o \in CallOutcomes :
                      LET t == TryCallTool(tool_name, o, tool_output)
                      IN  /\ providerOps' = providerOps \o asked
                                \o <<Op("call_tool", client, <<tool_name>>)>>
                          /\ tool_output' = t.out
                          /\ call_raised' = IF o.kind = "raise"
                                            THEN call_raised \cup {idx + 1}
                                            ELSE call_raised
                          /\ IF t.escapes
                             THEN /\ Raise("UnboundLocalError", "execute_tool_requests")
                                  /\ UNCHANGED << idx, tool_result_blocks, call_outputs >>
                             ELSE /\ tool_result_blocks' = Append(tool_result_blocks, t.part)
                                  /\ call_outputs' = Append(call_outputs, o)
                                  /\ idx' = idx + 1
                                  /\ UNCHANGED << pc, outcome, exc >>
    /\ UNCHANGED << variant, messages, query, use_tools, tool_config, prompt_messages,
                    response, tool_requests, tool_result_parts, answer, turns,
                    modelCalls, turnCalls, received, turnStart, read_failed, appVars >>

\* the loop of execute_tool_requests is over: the function hands back its
\* result and Chat.run appends it with add_user_message
ToolRoundReturn ==
    /\ variant = "core"
    /\ pc = "dispatch"
    /\ idx = Len(tool_requests)
    /\ tool_result_parts' = execute_tool_requests_result(tool_result_blocks)
    /\ messages' = Gemini_add_user_message(messages,
                        execute_tool_requests_result(tool_result_blocks))
    /\ pc' = "model_call"
    /\ tool_requests' = <<>>
    /\ idx' = 0
    /\ tool_result_blocks' = <<>>
    /\ tool_output' = Unbound
    /\ call_raised' = {}
    /\ call_outputs' = <<>>
    /\ UNCHANGED << variant, query, use_tools, tool_config, prompt_messages, response,
                    outcome, exc, answer, turns, modelCalls, turnCalls, received,
                    turnStart, read_failed, providerOps, appVars >>

(* ------------------- app: main, MCPClient, CliApp ---------------------- *)
\* the exception classes that derive from Exception; KeyboardInterrupt
\* derives from BaseException only
IsException(t) == t \in {"McpError", "APIError", "EOFError", "OSError"}

\* the documents and prompts the provider lists for CliApp.initialize
ListedPrompts == << <<"s">> >>

\* an initialize whose except clause lets everything through
InitializeHandler_Propagate(t) == "propagate"

\* the except clause of CliApp.initialize: what happens to exception t
InitializeHandler(t) == IF IsException(t) THEN "report" ELSE "propagate"

\* a loop that breaks on every exception
RunHandler_Break(t) == "break"

\* the except clauses of CliApp.run: what happens to exception t
RunHandler(t) ==
    IF t = "KeyboardInterrupt" THEN "break"
    ELSE IF IsException(t) THEN "report"
    ELSE "propagate"

\* the contexts MCPClient.connect enters on its _exit_stack, in order
ConnectContexts == <<"transport", "session">>

\* MCPClient.cleanup: _exit_stack.aclose() exits every context entered
cleanup(stack) == {}

\* main, up to the end of MCPClient.__aenter__: connect enters stdio_client,
\* then ClientSession, then awaits session.initialize(); failAt is the step
\* that raises (0: none).  When connect raises, __aenter__ raises, main's
\* stack has registered nothing and the async with block is left with
\* MCPClient._exit_stack as connect left it.
MainConnect ==
    /\ variant = "app"
    /\ stage = "main"
    /\ \E failAt \in 0..3 :
         /\ opened' = { ConnectContexts[k] :
                          k \in 1..(IF failAt = 0 THEN 2 ELSE failAt - 1) }
         /\ IF failAt = 0
            THEN /\ stage' = "initialize"
                 /\ app_exc' = ""
            ELSE /\ stage' = "connect_failed"
                 /\ app_exc' = "OSError"
    /\ UNCHANGED << variant, pc, messages, query, use_tools, tool_config,
                    prompt_messages, response, dispatchVars, tool_result_parts,
                    outcome, exc, answer, turns, modelCalls, turnCalls, received,
                    turnStart, read_failed, providerOps, completer, console >>

\* what can happen in the try block of CliApp.initialize: the step that
\* raises (1: read_resource, 2: list_prompts, 0: none) and the exception
InitializeOutcomes ==
    { [failAt |-> 0, type |-> ""] }
    \cup { [failAt |-> k, type |-> t] : k \in 1..2, t \in {"McpError", "KeyboardInterrupt"} }

\* CliApp.initialize and what main does with its outcome: on a normal return
\* cli.run() is entered; an exception initialize lets through leaves the
\* async with block, whose stack runs MCPClient.__aexit__
CliAppInitialize ==
    /\ variant = "app"
    /\ stage = "initialize"
    /\ \E o \in InitializeOutcomes :
         /\ completer' = [resources |-> IF o.failAt = 1 THEN <<>> ELSE Catalog,
                          prompts |-> IF o.failAt = 0 THEN ListedPrompts ELSE <<>>]
         /\ app_exc' = o.type
         /\ IF o.failAt = 0
            THEN /\ stage' = "run"
                 /\ UNCHANGED << opened, console >>
            ELSE IF InitializeHandler(o.type) = "report"
            THEN /\ stage' = "run"
                 /\ console' = "init_error"
                 /\ UNCHANGED opened
            ELSE /\ stage' = "initialize_left"
                 /\ opened' = cleanup(opened)
                 /\ UNCHANGED console
    /\ UNCHANGED << variant, pc, messages, query, use_tools, tool_config,
                    prompt_messages, response, dispatchVars, tool_result_parts,
                    outcome, exc, answer, turns, modelCalls, turnCalls, received,
                    turnStart, read_failed, providerOps >>

\* the try statement of CliApp.run when exception t reaches it, and main
\* after it: break (run returns), report (the loop prompts again) or
\* propagate; when run is over the async with block is left and cleaned up
CliAppRunExcept(t) ==
    /\ app_exc' = t
    /\ IF RunHandler(t) = "report"
       THEN /\ console' = "error"
            /\ UNCHANGED << stage, opened >>
       ELSE /\ console' = (IF RunHandler(t) = "break" THEN "goodbye" ELSE console)
            /\ stage' = "run_left"
            /\ opened' = cleanup(opened)

(* ----------------------------- app: CliChat.run ------------------------ *)
\* one pass of CliApp.run up to the model call of CliChat.run: the prompt
\* returns q; run calls _extract_resources when "@" is in the query (it
\* returns [] before any read when no word is a mention, and any exception
\* inside it is caught and gives []), then appends the user message
AppRunQuery(q) ==
    /\ variant = "app"
    /\ stage = "run"
    /\ BeginTurn(q)
    /\ UNCHANGED << use_tools, prompt_messages, stage, opened, completer >>
    /\ console' = "none"
    /\ app_exc' = ""
    /\ LET resolve == HasChar(q, "@") /\ Mentions(q) # <<>>
       IN  \E failAt \in (IF resolve THEN 0..(1 + Len(AppMentioned(q))) ELSE {0}) :
             LET added_resources == IF resolve /\ failAt = 0 THEN AppExtracted(q) ELSE <<>>
             IN  /\ providerOps' = IF resolve THEN ReadOps(AppMentioned(q), failAt) ELSE <<>>
                 /\ read_failed' = (failAt # 0)
                 /\ messages' = Append(messages,
                        Msg("user", PList(<<TextDict(q)>> \o added_resources)))
    /\ pc' = "model_call"
    /\ outcome' = "none"
    /\ exc' = NoExc

\* chat, text_from_message and the return, and CliApp.run printing the
\* response or handling the exception
AppModelCall ==
    /\ variant = "app"
    /\ stage = "run"
    /\ pc = "model_call"
    /\ modelCalls < MaxModelCalls
    /\ modelCalls' = modelCalls + 1
    /\ turnCalls' = turnCalls + 1
    /\ \E r \in ChatOutcomes :
         IF r.ok
         THEN /\ response' = r.parts
              /\ received' = Append(received, r.parts)
              /\ answer' = AppFinal(GeminiService_text_from_message(r.parts))
              /\ pc' = "done"
              /\ outcome' = "returned"
              /\ exc' = NoExc
              /\ console' = "response"
              /\ UNCHANGED << stage, opened, app_exc >>
         ELSE /\ Raise("APIError", "chat")
              /\ CliAppRunExcept("APIError")
              /\ UNCHANGED << response, answer, received >>
    /\ UNCHANGED << variant, messages, query, use_tools, tool_config, prompt_messages,
                    dispatchVars, tool_result_parts, turns, turnStart, read_failed,
                    providerOps, completer >>

\* the exceptions prompt_async raises: end of input, or the user's Ctrl-C
PromptExceptions == {"EOFError", "KeyboardInterrupt"}

\* an exception reaches the try statement of CliApp.run from the prompt, or
\* KeyboardInterrupt from agent.run while the turn waits for the model
CliAppRunRaises ==
    /\ variant = "app"
    /\ stage = "run"
    /\ \/ /\ pc \in {"idle", "done"}
          /\ \E t \in PromptExceptions : CliAppRunExcept(t)
          /\ UNCHANGED << pc, outcome, exc >>
       \/ /\ pc = "model_call"
          /\ Raise("KeyboardInterrupt", "run")
          /\ CliAppRunExcept("KeyboardInterrupt")
    /\ UNCHANGED << variant, messages, query, use_tools, tool_config, prompt_messages,
                    response, dispatchVars, tool_result_parts, answer, turns, modelCalls,
                    turnCalls, received, turnStart, read_failed, providerOps, completer >>

Next ==
    \/ \E q \in Queries : CoreRunCommand(q)
    \/ \E q \in Queries : CoreRunPlain(q)
    \/ CoreModelCall
    \/ ExecuteToolRequest
    \/ ToolRoundReturn
    \/ MainConnect
    \/ CliAppInitialize
    \/ \E q \in Queries : AppRunQuery(q)
    \/ AppModelCall
    \/ CliAppRunRaises

Spec == Init /\ [][Next]_vars

(* ====================================================================== *)
(*                              properties                                *)
(* ====================================================================== *)
\* some part holds a function call
HasCalls(parts) == \E k \in 1..Len(parts) : parts[k].kind = "call"

\* some Text part holds a character that is not white space
Usable(parts) ==
    \E k \in 1..Len(parts) :
        /\ parts[k].kind = "text"
        /\ \E c \in 1..Len(parts[k].text) : ~IsSpace(parts[k].text[c])

\* the texts of the Text parts, in order
AllTexts(parts) ==
    MapSeq(LAMBDA p : p.text, SelectSeq(parts, LAMBDA p : p.kind = "text"))

\* the texts of the non-empty Text parts, in order
NonEmptyTexts(parts) == SelectSeq(AllTexts(parts), LAMBDA t : t # <<>>)

\* some provider lists the tool
Listed(tool_name) == \E k \in 1..NumClients : InSeq(tool_name, ClientTools[k])

\* the strings a message holds
MsgStrings(m) ==
    IF m.parts.t = "str" THEN {m.parts.s}
    ELSE {m.parts.items[k].text : k \in 1..Len(m.parts.items)}

MsgContains(m, sub) == \E t \in MsgStrings(m) : Contains(t, sub)

\* the dispatcher has just returned to Chat.run, which still holds the
\* response the batch came from
DispatchReturned ==
    variant = "core" /\ pc = "model_call" /\ tool_result_parts # PUnbound

\* C1: execute_tool_requests, given a response with n >= 1 FunctionCall parts,
\* returns a list of exactly n FunctionResponse parts, the i-th carrying the
\* name of the i-th FunctionCall.
C1_ReturnsOneResponsePerCall ==
    DispatchReturned =>
        LET calls == ToolRequests(response)
        IN  /\ tool_result_parts.t = "list"
            /\ Len(tool_result_parts.items) = Len(calls)
            /\ \A k \in 1..Len(calls) :
                 /\ k <= Len(tool_result_parts.items)
                 /\ tool_result_parts.items[k].kind = "functionResponse"
                 /\ tool_result_parts.items[k].name = calls[k].name

\* the FunctionCall parts of Model message k are answered, one
\* FunctionResponse each and in order, by the User message right after it
Answered(k) ==
    LET calls == ToolRequests(messages[k].parts.items)
    IN  calls # <<>> =>
          /\ k < Len(messages)
          /\ messages[k + 1].role = "user"
          /\ messages[k + 1].parts.t = "list"
          /\ LET resp == SelectSeq(messages[k + 1].parts.items,
                                   LAMBDA p : p.kind = "functionResponse")
             IN  /\ Len(resp) = Len(calls)
                 /\ \A j \in 1..Len(calls) :
                      j <= Len(resp) /\ resp[j].name = calls[j].name

\* C2: when a turn of Chat.run returns a final answer, every FunctionCall part
\* of every Model message appended during the turn is answered by exactly one
\* FunctionResponse part of the same name in the User message right after it.
C2_EveryCallAnsweredBeforeFinal ==
    (variant = "core" /\ pc = "done" /\ outcome = "returned") =>
        \A k \in (turnStart + 1)..Len(messages) :
            messages[k].role = "model" => Answered(k)

\* the requests of the batch that were resolved before the dispatcher ended
ResolvedCount ==
    idx + (IF pc = "done" /\ exc.where = "execute_tool_requests" THEN 1 ELSE 0)

\* C3: a request whose tool no provider lists gets a FunctionResponse with
\* is_error = true and the not-found message, and every later request of the
\* batch is still resolved and dispatched: the dispatcher never ends with a
\* request after it left unresolved.
C3_NotFoundThenRestStillDispatched ==
    variant = "core" =>
        \A j \in 1..Len(tool_requests) :
            (~Listed(tool_requests[j].name) /\ j <= idx) =>
                /\ tool_result_blocks[j].kind = "functionResponse"
                /\ tool_result_blocks[j].name = tool_requests[j].name
                /\ tool_result_blocks[j].is_error
                /\ tool_result_blocks[j].content = NotFoundText
                /\ (pc = "done" => ResolvedCount = Len(tool_requests))

\* C4: when call_tool raises for a request, at any position of the batch, the
\* exception is caught and the request gets a FunctionResponse with
\* is_error = true that embeds the exception's message; no exception leaves
\* the dispatcher.
C4_CallFailureBecomesErrorResponse ==
    variant = "core" =>
        /\ exc.where # "execute_tool_requests"
        /\ \A j \in call_raised :
             /\ j <= idx
             /\ tool_result_blocks[j].kind = "functionResponse"
             /\ tool_result_blocks[j].name = tool_requests[j].name
             /\ tool_result_blocks[j].is_error
             /\ Contains(tool_result_blocks[j].content, RaiseMsg)

\* the endpoint followed the script: FunctionCall, FunctionCall, usable text
Scripted ==
    /\ Len(received) >= 3
    /\ HasCalls(received[1])
    /\ HasCalls(received[2])
    /\ ~HasCalls(received[3])
    /\ Usable(received[3])

\* C5: against a model that returns a FunctionCall on its first two calls and
\* only text on the third, Chat.run ends after exactly three model calls and
\* returns the text of the third response.
C5_ScriptedRunReturnsThirdText ==
    (variant = "core" /\ Scripted) =>
        /\ pc = "done"
        /\ outcome = "returned"
        /\ turnCalls = 3
        /\ answer \in { Join(<<NL>>, AllTexts(received[3])),
                        Join(<<NL>>, NonEmptyTexts(received[3])) }

\* C6: when the final response (no FunctionCall part) has a Text part that is
\* not blank, the answer run returns is its non-empty Text parts in order,
\* joined by newline, in Chat.run as in app.py's CliChat.run.  (The claim asks
\* this for every response with a non-empty Text part, so it asks at least this.)
C6_AnswerIsJoinedText ==
    (pc = "done" /\ outcome = "returned" /\ ~HasCalls(response) /\ Usable(response)) =>
        answer = Join(<<NL>>, NonEmptyTexts(response))

\* the sentinel of the running agent
Sentinel == IF variant = "core" THEN CoreSentinel ELSE AppSentinel

\* the last response the endpoint gave in this turn is one run treats as
\* final: any response in app.py, a response without FunctionCall in Chat.run
LastIsFinal ==
    /\ received # <<>>
    /\ (variant = "core" => ~HasCalls(received[Len(received)]))

\* C7: run never returns an empty string, and a final response with no usable
\* text ends the turn with a normal return of the fixed sentinel message.
C7_NeverEmptyAnswer ==
    /\ (outcome = "returned" => answer # <<>>)
    /\ (LastIsFinal /\ ~Usable(received[Len(received)])) =>
          (pc = "done" /\ outcome = "returned" /\ answer = Sentinel)

\* a turn of app.py's CliChat.run returned the sentinel for a blank response
C7_Witness ==
    /\ variant = "app"
    /\ outcome = "returned"
    /\ response = << TextPart(<<SP>>) >>
    /\ answer = AppSentinel

\* C8: for a query with no "@" that does not start with "/", a turn performs
\* no provider operation at all (no read_resource, get_prompt, list_tools or
\* call_tool); the document-id catalog is not fetched.
C8_PlainQueryNoProviderOps ==
    (turns > 0 /\ ~HasChar(query, "@") /\ ~StartsWith(query, "/")) =>
        providerOps = <<>>

\* C9: for a query starting with "/" whose template fetch succeeds,
\* _process_query appends exactly one message per block get_prompt returned, in
\* the returned order (role "user" kept, any other role "model", a text block's
\* text as the parts), and no message of the turn holds the literal command
\* text or a document block.
C9_CommandAppendsRenderedBlocks ==
    (variant = "core" /\ prompt_messages.bound) =>
        LET blocks == prompt_messages.blocks
            n == Len(blocks)
        IN  /\ Len(messages) >= turnStart + n
            /\ (turnCalls = 0 => Len(messages) = turnStart + n)
            /\ \A k \in 1..n :
                 /\ messages[turnStart + k].role =
                        (IF blocks[k].role = "user" THEN "user" ELSE "model")
                 /\ (blocks[k].ckind = "text" =>
                        messages[turnStart + k].parts = PStrVal(blocks[k].text))
            /\ \A k \in (turnStart + 1)..Len(messages) :
                 /\ ~MsgContains(messages[k], query)
                 /\ ~MsgContains(messages[k], <<"<document id=\"">>)

\* a command turn has appended the rendered blocks and is about to call the model
C9_Witness ==
    /\ variant = "core"
    /\ StartsWith(query, "/")
    /\ prompt_messages.bound
    /\ Len(prompt_messages.blocks) >= 2
    /\ pc = "model_call"
    /\ turnCalls = 0
    /\ Len(messages) = turnStart + Len(prompt_messages.blocks)

\* the command of the query has no second token or names no known template
Malformed(q) ==
    \/ Len(Split(q)) < 2
    \/ RemoveChar(Split(q)[1], "/") \notin KnownPrompts

\* C10: for a query starting with "/" whose expansion fails (unknown command,
\* fetch failure, no second token) run raises to its caller, the Conversation
\* is unchanged and the query is neither appended nor sent to the model.
C10_FailedCommandRaises ==
    (turns > 0 /\ StartsWith(query, "/") /\ (Malformed(query) \/ exc.where = "get_prompt")) =>
        /\ pc = "done"
        /\ outcome = "raised"
        /\ Len(messages) = turnStart
        /\ turnCalls = 0

\* a is b, or b with messages appended
IsPrefix(a, b) == Len(a) <= Len(b) /\ SubSeq(b, 1, Len(a)) = a

\* C11: the Conversation is append-only: every step of the program, model
\* calls and tool rounds included, leaves the history as it stood an unchanged
\* prefix of the new history (nothing deleted, reordered, inserted before the
\* end or changed), over any sequence of turns.
C11_AppendOnly == [][IsPrefix(messages, messages')]_vars

\* a second turn of Chat.run has gone through a model call and a tool round
\* on top of the history of the first
C11_Witness ==
    /\ variant = "core"
    /\ turns = 2
    /\ turnStart >= 2
    /\ Len(messages) >= turnStart + 3
    /\ messages[Len(messages)].role = "user"
    /\ pc = "model_call"

\* C12: _find_client_with_tool asks the providers in registration order and
\* returns the first whose tool list holds the name: every call_tool the
\* dispatcher makes goes to a provider that lists the tool, no provider
\* registered before it lists the tool, and it follows list_tools on the
\* providers up to that one, in order.  A tool two providers list is always
\* called on the earlier one.
C12_FirstProviderWins ==
    variant = "core" =>
        \A i \in 1..Len(providerOps) :
            providerOps[i].op = "call_tool" =>
                LET c == providerOps[i].client
                    n == providerOps[i].arg[1]
                IN  /\ InSeq(n, ClientTools[c])
                    /\ \A j \in 1..(c - 1) : ~InSeq(n, ClientTools[j])
                    /\ i > c
                    /\ \A j \in 1..c :
                         providerOps[i - c + j - 1] = Op("list_tools", j, <<>>)

\* the dispatcher has called t2, which both providers list, on the first
C12_Witness ==
    /\ variant = "core"
    /\ InSeq("t2", ClientTools[1]) /\ InSeq("t2", ClientTools[2])
    /\ \E i \in 1..Len(providerOps) : providerOps[i] = Op("call_tool", 1, <<"t2">>)

\* C13: tool resolution never raises: whatever the providers do, a provider
\* whose list_tools fails included, _find_client_with_tool yields a provider
\* or the not-found signal, so no turn ends with an exception raised in it.
C13_ResolutionNeverRaises ==
    variant = "core" =>
        ~(pc = "done" /\ outcome = "raised" /\ exc.where = "_find_client_with_tool")

\* C14: the catalog get_all_tools returns holds each tool name at most once,
\* also when two providers list a tool of the same name.
C14_CatalogNamesUnique ==
    ~tool_config.none =>
        \A i, j \in 1..Len(tool_config.tools) :
            i # j => tool_config.tools[i] # tool_config.tools[j]

\* how many times sub occurs in s
Occurrences(s, sub) ==
    Cardinality({ i \in 0..(Len(s) - Len(sub)) : SubSeq(s, i + 1, i + Len(sub)) = sub })

\* the text of the user message the turn built from the query, its parts
\* one after the other
ExpandedText ==
    Concat(MapSeq(LAMBDA p : p.text, messages[turnStart + 1].parts.items))

\* the opening tag of the document block of doc_id
DocTag(doc_id) == <<"<document id=\"">> \o doc_id \o <<"\">">>

\* the turn expanded the mentions of its query: it is no command and no
\* read_resource failed
Expanded ==
    /\ turns > 0
    /\ ~StartsWith(query, "/")
    /\ ~read_failed

AfterModelCall ==
    /\ received # <<>>
    /\ \/ pc = "dispatch"
       \/ pc = "done" /\ outcome = "returned"

\* C16: after every model call the response is appended to the Conversation
\* as one Model message carrying all of its parts, before any other message
\* is appended and before the turn returns, in Chat.run as in app.py's
\* CliChat.run: when run goes on after a model call, the last message of the
\* Conversation is that Model message.
C16_ResponseAppended ==
    AfterModelCall =>
        /\ Len(messages) > turnStart
        /\ messages[Len(messages)] = Msg("model", PList(received[Len(received)]))

\* C17: a tool round of Chat.run appends exactly one User message, whose
\* parts are the FunctionResponse parts for all FunctionCall parts of the
\* latest Model message, and goes back to the model call: when the round is
\* over the Conversation ends with that Model message and this one User
\* message.
C17_OneUserMessagePerRound ==
    DispatchReturned =>
        LET n == Len(messages)
            calls == ToolRequests(response)
        IN  /\ n >= turnStart + 2
            /\ messages[n - 1] = Msg("model", PList(response))
            /\ messages[n].role = "user"
            /\ messages[n].parts.t = "list"
            /\ Len(messages[n].parts.items) = Len(calls)
            /\ \A k \in 1..Len(calls) :
                 /\ messages[n].parts.items[k].kind = "functionResponse"
                 /\ messages[n].parts.items[k].name = calls[k].name

\* the texts of the TextContent items of a result, in order
TextItems(o) ==
    MapSeq(LAMBDA it : it.text, SelectSeq(o.content, LAMBDA it : it.isText))

\* C18: for a call_tool that returned, the FunctionResponse built for the
\* request has as content the JSON array of the result's text items in order
\* (the empty array when the provider returned no result) and as is_error the
\* provider's own isError flag (false when the provider returned no result).
C18_SuccessContentAndFlag ==
    variant = "core" =>
        \A j \in 1..Len(call_outputs) :
            call_outputs[j].kind \in {"none", "result"} =>
                /\ tool_result_blocks[j].kind = "functionResponse"
                /\ tool_result_blocks[j].name = tool_requests[j].name
                /\ tool_result_blocks[j].content =
                       (IF call_outputs[j].kind = "none" THEN <<"[", "]">>
                        ELSE JsonDumpsList(TextItems(call_outputs[j])))
                /\ tool_result_blocks[j].is_error =
                       (call_outputs[j].kind = "result" /\ call_outputs[j].isError)

\* in one batch a call_tool returned a result flagged isError with a text and
\* a non-text item, and another returned no result
C18_Witness ==
    /\ variant = "core"
    /\ pc = "dispatch"
    /\ \E j, k \in 1..Len(call_outputs) :
         /\ call_outputs[j].kind = "result"
         /\ call_outputs[j].isError
         /\ Len(call_outputs[j].content) = 2
         /\ tool_result_blocks[j].is_error
         /\ call_outputs[k].kind = "none"

\* C19: when a turn of Chat.run is aborted by an exception (in the model
\* call, in tool listing or in a tool call), the Conversation it leaves is the
\* pre-turn history plus appended messages, and it does not end with a Model
\* message holding a FunctionCall part that no FunctionResponse message
\* answers.
C19_AbortLeavesConsistentHistory ==
    (variant = "core" /\ pc = "done" /\ outcome = "raised") =>
        /\ Len(messages) >= turnStart
        /\ (messages # <<>> =>
              LET last == messages[Len(messages)]
              IN  ~(last.role = "model" /\ last.parts.t = "list" /\ HasCalls(last.parts.items)))

\* every response of the turn so far holds a FunctionCall part
AlwaysCalls == \A k \in 1..Len(received) : HasCalls(received[k])

\* the messages _process_query appended at the start of the turn
FirstMessages == IF prompt_messages.bound THEN Len(prompt_messages.blocks) ELSE 1

\* C20: Chat.run enforces no round limit: as long as every response of the
\* turn holds a FunctionCall part, run does not return (the turn is in a
\* model call, in a tool round, or was ended by an exception), however many
\* rounds it has made, and each round has added two messages to the
\* Conversation: the Model message and the User message of the tool round.
C20_NoRoundLimit ==
    (variant = "core" /\ turns > 0 /\ AlwaysCalls) =>
        /\ ~(pc = "done" /\ outcome = "returned")
        /\ (pc = "model_call" =>
              Len(messages) = turnStart + FirstMessages + 2 * Len(received))
        /\ (pc = "dispatch" =>
              Len(messages) = turnStart + FirstMessages + 2 * Len(received) - 1)

\* a turn has made as many rounds as the endpoint answers at all, each with
\* a FunctionCall, and is back at the model call
C20_Witness ==
    /\ variant = "core"
    /\ pc = "model_call"
    /\ turnCalls = MaxModelCalls
    /\ Len(received) = MaxModelCalls
    /\ AlwaysCalls

\* C21: in Chat.run the tool catalog is attached to a model call if and only
\* if the turn's query starts with "/" or contains "@", the same for every
\* model call of the turn; when it does, the catalog is aggregated with one
\* list_tools per provider before the call, and when it does not, the step
\* makes no list_tools call at all.
C21_CatalogOnlyForToolQueries ==
    [][(variant = "core" /\ pc = "model_call") =>
          LET wanted == StartsWith(query, "/") \/ HasChar(query, "@")
          IN  /\ query' = query
              /\ (~wanted => providerOps' = providerOps)
              /\ (turnCalls' = turnCalls + 1 =>
                    /\ Gemini_chat_params_tool_config(tool_config').none = ~wanted
                    /\ (wanted => /\ providerOps' = providerOps \o ListToolsOps(NumClients)
                                  /\ tool_config'.tools = Concat(ClientTools)))]_vars

\* the second model call of a turn on a query without "/" and "@" went out
\* with no catalog, after a tool round
C21_Witness ==
    /\ variant = "core"
    /\ turnCalls = 2
    /\ ~StartsWith(query, "/")
    /\ ~HasChar(query, "@")
    /\ tool_config.none
    /\ Len(received) = 2
    /\ HasCalls(received[1])

\* where sub occurs in s
Positions(s, sub) ==
    { i \in 0..(Len(s) - Len(sub)) : SubSeq(s, i + 1, i + Len(sub)) = sub }

\* C22: mention expansion returns its document blocks in the order of the
\* provider's catalog, whatever the order of the mentions in the query, one
\* block per matched catalog id, in core/cli_chat.py as in app.py.
C22_BlocksInCatalogOrder ==
    Expanded =>
        /\ \A i \in 1..Len(Catalog) :
             Cardinality(Positions(ExpandedText, DocTag(Catalog[i]))) <= 1
        /\ \A i, j \in 1..Len(Catalog) :
             i < j =>
                 \A a \in Positions(ExpandedText, DocTag(Catalog[i])),
                    b \in Positions(ExpandedText, DocTag(Catalog[j])) : a < b

\* C23: when fetching the document catalog or the prompt list fails in
\* CliApp.initialize, the failure is reported, initialize returns normally
\* and main enters CliApp.run with the provider session still open.
C23_InitializeFailureStillRuns ==
    [][(variant = "app" /\ stage = "initialize" /\ app_exc' = "McpError") =>
          /\ stage' = "run"
          /\ console' = "init_error"
          /\ opened' = opened
          /\ pc' = "idle"]_vars

\* after an initialize that could not fetch the catalog, the loop has taken
\* a query and printed its response
C23_Witness ==
    /\ variant = "app"
    /\ stage = "run"
    /\ completer = NoCompletions
    /\ turns >= 1
    /\ outcome = "returned"
    /\ console = "response"

\* main has left its async with block
BlockLeft == stage \in {"connect_failed", "initialize_left", "run_left"}

\* C24: when main's async with block is left, every transport and session
\* context MCPClient.connect opened is closed, on every exit path: the return
\* of run, an exception or interrupt inside the block, and a failure inside
\* connect after the transport was opened.
C24_ContextsClosedOnExit ==
    (variant = "app" /\ BlockLeft) => opened = {}

====
